---- MODULE Spec2Model ----
(***************************************************************************)
(* Model of lsst.ctrl.notify.notify.Notify: one inotify session with its   *)
(* two registry maps (self.watches, self.paths), the raw descriptor        *)
(* (self.fd), the buffered reader opened on it (self.filebuf), and the     *)
(* operations addWatch, rmWatch and readEvent.  The kernel and the C       *)
(* binding (inotify_add_watch, inotify_rm_watch, the event stream) are the *)
(* environment: their outcomes are chosen nondeterministically.            *)
(***************************************************************************)
EXTENDS Integers, Sequences, FiniteSets, TLC

VARIABLES
    watches,    \* self.watches : path -> watch descriptor
    paths,      \* self.paths   : watch descriptor -> path
    live,       \* kernel side: live watch descriptor -> the path bytes it was added with
    fdq,        \* records queued in the kernel for self.fd, not yet read
    buf,        \* records already pulled from self.fd into self.filebuf
    eof,        \* the stream behind self.fd has ended
    last        \* the last operation, its arguments and its outcome

vars == <<watches, paths, live, fdq, buf, eof, last>>

(***************************************************************************)
(* Bounds of the model.                                                    *)
(***************************************************************************)
MaxPending == 2     \* records in flight (queued on the fd plus buffered)

(***************************************************************************)
(* Characters, bytes and strings.  A string is a sequence of characters, a *)
(* byte string a sequence of byte values.                                  *)
(***************************************************************************)
NUL == "NUL"

\* str.encode('utf-8') on the characters used here (all ASCII)
Ord(c) ==
    CASE c = NUL -> 0
      [] c = "/" -> 47
      [] c = "a" -> 97
      [] c = "s" -> 115
      [] c = "t" -> 116

Encode(s) == [i \in 1..Len(s) |-> Ord(s[i])]

\* bytes.decode('utf-8') on the same characters
Chr(b) ==
    CASE b = 0 -> NUL
      [] b = 47 -> "/"
      [] b = 97 -> "a"
      [] b = 115 -> "s"
      [] b = 116 -> "t"

Decode(bs) == [i \in 1..Len(bs) |-> Chr(bs[i])]

\* a bug os.path.join guards against: path + name
JoinConcat(a, b) == a \o b

\* os.path.join(a, b) of posixpath
Join(a, b) ==
    IF Len(b) > 0 /\ b[1] = "/" THEN b
    ELSE IF Len(a) = 0 \/ a[Len(a)] = "/" THEN a \o b
    ELSE a \o <<"/">> \o b

\* str.rstrip('\0')
RECURSIVE RStripNul(_)
RStripNul(s) ==
    IF Len(s) > 0 /\ s[Len(s)] = NUL
    THEN RStripNul(SubSeq(s, 1, Len(s) - 1))
    ELSE s

(***************************************************************************)
(* Inputs.                                                                 *)
(***************************************************************************)
PathArgs == {<<"/", "s">>, <<"/", "t">>}
MaskArgs == {"IN_CREATE"}
\* readEvent(): "omitted" is a call without the argument
TimeoutArgs == {"omitted", "None", "0", "5.0"}

\* the watch descriptors the kernel hands out
WatchIds == {1, 2}
\* what inotify_add_watch / inotify_rm_watch return on failure
KernelFailure == -1
KernelSuccess == 0


(***************************************************************************)
(* Dictionaries.                                                           *)
(***************************************************************************)
EmptyDict == <<>>

\* d[k] = v
DictSet(d, k, v) == [x \in DOMAIN d \cup {k} |-> IF x = k THEN v ELSE d[x]]

\* d.pop(k), the dictionary that is left
DictPop(d, k) == [x \in DOMAIN d \ {k} |-> d[x]]

(***************************************************************************)
(* Records of the event stream: the fixed header (wd, mask, cookie, len)   *)
(* followed by the name bytes.  name holds the bytes the stream really     *)
(* delivers after the header: fewer than len only when the stream ends in  *)
(* the middle of the record.                                               *)
(***************************************************************************)
Rec(wd, mask, len, name) ==
    [wd |-> wd, mask |-> mask, cookie |-> 0, len |-> len, name |-> name]

\* name payloads as the kernel pads them: "a\0"
NamePayloads == {<<97, 0>>}

CompleteRecords ==
    {Rec(w, "IN_IGNORED", 0, <<>>) : w \in WatchIds}
    \cup {Rec(w, "IN_CREATE", Len(n), n) : w \in WatchIds, n \in NamePayloads}

TruncatedRecords ==
    {Rec(w, "IN_CREATE", Len(n), SubSeq(n, 1, k)) :
        w \in WatchIds, n \in NamePayloads, k \in 0..1}

(***************************************************************************)
(* The events readEvent returns.                                           *)
(***************************************************************************)
None == [kind |-> "None"]

\* InotifyEvent(event) and InotifyEvent(event, name)
InotifyEvent(event, hasName, name) ==
    [kind |-> "InotifyEvent", wd |-> event.wd, mask |-> event.mask,
     cookie |-> event.cookie, length |-> event.len,
     hasName |-> hasName, name |-> IF hasName THEN RStripNul(name) ELSE <<>>]

(***************************************************************************)
(* The record of the last operation.                                       *)
(***************************************************************************)
Op(op, path, timeout, ready, outcome, error, kcall, kret, ret, event) ==
    [op |-> op, path |-> path, timeout |-> timeout, ready |-> ready,
     outcome |-> outcome, error |-> error, kcall |-> kcall, kret |-> kret,
     ret |-> ret, event |-> event]

\* an operation of the environment (the kernel), not of the session
EnvOp(op) == Op(op, <<>>, "omitted", FALSE, "env", "", "none", 0, 0, None)

(***************************************************************************)
(* Notify.__init__                                                         *)
(***************************************************************************)
Init ==
    /\ watches = EmptyDict
    /\ paths = EmptyDict
    /\ live = EmptyDict
    /\ fdq = <<>>
    /\ buf = <<>>
    /\ eof = FALSE
    /\ last = Op("init", <<>>, "omitted", FALSE, "return", "", "inotify_init", 0, 0, None)

(***************************************************************************)
(* Notify.addWatch                                                         *)
(***************************************************************************)
\* self.paths[watch] = path
AddWatchPaths(ps, watch, path) == DictSet(ps, watch, path)

\* self.watches[path] = watch
AddWatchWatches(ws, path, watch) == DictSet(ws, path, watch)

\* inotify_add_watch(self.fd, path.encode('utf-8'), mask): the binding
\* raises, or returns the failure value, or returns a watch descriptor
\* (the one already live for the same inode, or another one)
AddWatchReturns == WatchIds \cup {KernelFailure}

KernelAddWatch(lv, pathBytes, watch) ==
    IF watch = KernelFailure THEN lv ELSE DictSet(lv, watch, pathBytes)

AddWatchRaises(path, mask) ==
    /\ last' = Op("addWatch", path, "omitted", FALSE, "raise",
                  "inotify_add_watch", "inotify_add_watch", 0, 0, None)
    /\ UNCHANGED <<watches, paths, live, fdq, buf, eof>>

AddWatchReturn(path, mask, watch) ==
    /\ live' = KernelAddWatch(live, Encode(path), watch)
    /\ paths' = AddWatchPaths(paths, watch, path)
    /\ watches' = AddWatchWatches(watches, path, watch)
    /\ last' = Op("addWatch", path, "omitted", FALSE, "return", "",
                  "inotify_add_watch", watch, 0, None)
    /\ UNCHANGED <<fdq, buf, eof>>

AddWatch(path, mask) ==
    \/ AddWatchRaises(path, mask)
    \/ \E watch \in AddWatchReturns : AddWatchReturn(path, mask, watch)

(***************************************************************************)
(* Notify.rmWatch                                                          *)
(***************************************************************************)
\* the sentinel of "ret = -1" and "return -1"
RmSentinel == -1

\* Python's None where a path is expected
PyNone == <<"None">>

\* watch = self.watches.pop(path)
RmWatchWatches(ws, path) == DictPop(ws, path)

\* if watch in self.paths: p = self.paths.pop(watch)
RmWatchPaths(ps, watch) ==
    IF watch \in DOMAIN ps THEN DictPop(ps, watch) ELSE ps

\* if p is None: return -1 ... return ret
RmWatchRet(ps, watch, ret) ==
    IF watch \in DOMAIN ps /\ ps[watch] = PyNone THEN RmSentinel ELSE ret

\* inotify_rm_watch(self.fd, watch): removes a live watch and returns 0;
\* for a descriptor that is not live it returns the failure value or raises
KernelRmOutcomes(lv, watch) ==
    IF watch \in DOMAIN lv THEN {"ok"} ELSE {"status", "raise"}

KernelRmWatch(lv, watch) ==
    IF watch \in DOMAIN lv THEN DictPop(lv, watch) ELSE lv

\* a bug: the lookup falls through to the kernel call instead of raising
RmWatchUnknownFallsThrough(path) ==
    /\ path \notin DOMAIN watches
    /\ last' = Op("rmWatch", path, "omitted", FALSE, "return", "",
                  "inotify_rm_watch", KernelFailure, KernelFailure, None)
    /\ UNCHANGED <<watches, paths, live, fdq, buf, eof>>

\* path not in self.watches: raise Exception(...)
RmWatchUnknown(path) ==
    /\ path \notin DOMAIN watches
    /\ last' = Op("rmWatch", path, "omitted", FALSE, "raise",
                  "watch descriptor not found for that path", "none", 0, 0, None)
    /\ UNCHANGED <<watches, paths, live, fdq, buf, eof>>

\* inotify_rm_watch raises: the exception leaves rmWatch after the pop of
\* self.watches and before the pop of self.paths
RmWatchKernelRaises(path) ==
    /\ path \in DOMAIN watches
    /\ "raise" \in KernelRmOutcomes(live, watches[path])
    /\ watches' = RmWatchWatches(watches, path)
    /\ last' = Op("rmWatch", path, "omitted", FALSE, "raise",
                  "inotify_rm_watch", "inotify_rm_watch", 0, 0, None)
    /\ UNCHANGED <<paths, live, fdq, buf, eof>>

RmWatchKernelReturns(path) ==
    /\ path \in DOMAIN watches
    /\ LET watch == watches[path]
       IN \E out \in KernelRmOutcomes(live, watch) \ {"raise"} :
            LET ret == IF out = "ok" THEN KernelSuccess ELSE KernelFailure
            IN /\ watches' = RmWatchWatches(watches, path)
               /\ live' = KernelRmWatch(live, watch)
               /\ paths' = RmWatchPaths(paths, watch)
               /\ last' = Op("rmWatch", path, "omitted", FALSE, "return", "",
                             "inotify_rm_watch", ret,
                             RmWatchRet(paths, watch, ret), None)
    /\ UNCHANGED <<fdq, buf, eof>>

RmWatch(path) ==
    \/ RmWatchUnknown(path)
    \/ RmWatchKernelRaises(path)
    \/ RmWatchKernelReturns(path)

(***************************************************************************)
(* Notify.readEvent                                                        *)
(***************************************************************************)
\* def readEvent(self, timeout=0)
DefaultTimeout == "0"

Timeout(arg) == IF arg = "omitted" THEN DefaultTimeout ELSE arg

\* select.select([self.fd], [], [], timeout) tests the raw descriptor: it is
\* readable when the kernel holds a record for it or the stream has ended
Readable(q, e) == q # <<>> \/ e

\* self.filebuf.readinto(event) on an empty buffer fills the buffer with one
\* read of the descriptor, which takes every record the kernel holds
FilledBuf(b, q) == IF b = <<>> THEN q ELSE b
FilledFdq(b, q) == IF b = <<>> THEN <<>> ELSE q

\* name = self.filebuf.read(event.length).decode('utf-8'): the bytes the
\* stream has for this record, at most event.length of them
ReadName(event) ==
    IF Len(event.name) <= event.len THEN event.name
    ELSE SubSeq(event.name, 1, event.len)

\* a bug: self.paths[event.wd] is looked up before the name length is tested
DecodedLooksUpFirst(ps, event) ==
    IF event.wd \notin DOMAIN ps
    THEN [outcome |-> "raise", error |-> "KeyError", event |-> None]
    ELSE IF event.len > 0
    THEN [outcome |-> "return", error |-> "",
          event |-> InotifyEvent(event, TRUE,
                                 Join(ps[event.wd], Decode(ReadName(event))))]
    ELSE [outcome |-> "return", error |-> "",
          event |-> InotifyEvent(event, FALSE, <<>>)]

\* a bug: the path is resolved whenever the descriptor is registered,
\* whatever the name length
DecodedResolvesRegistered(ps, event) ==
    IF event.wd \in DOMAIN ps
    THEN [outcome |-> "return", error |-> "",
          event |-> InotifyEvent(event, TRUE,
                                 Join(ps[event.wd], Decode(ReadName(event))))]
    ELSE [outcome |-> "return", error |-> "",
          event |-> InotifyEvent(event, FALSE, <<>>)]

\* lines 64-75: the event built from the header and the name, or the
\* exception that leaves readEvent
Decoded(ps, event) ==
    IF event.len > 0
    THEN IF event.wd \notin DOMAIN ps
         THEN [outcome |-> "raise", error |-> "KeyError", event |-> None]
         ELSE [outcome |-> "return", error |-> "",
               event |-> InotifyEvent(event, TRUE,
                                      Join(ps[event.wd], Decode(ReadName(event))))]
    ELSE [outcome |-> "return", error |-> "",
          event |-> InotifyEvent(event, FALSE, <<>>)]

\* a bug: the timeout is reported as an error
ReadEventTimedOutRaises(arg) ==
    /\ Timeout(arg) # "None"
    /\ ~Readable(fdq, eof)
    /\ last' = Op("readEvent", <<>>, arg, FALSE, "raise", "timeout", "select", 0, 0, None)
    /\ UNCHANGED <<watches, paths, live, fdq, buf, eof>>

\* len(rd) == 0: return None
ReadEventTimedOut(arg) ==
    /\ Timeout(arg) # "None"
    /\ ~Readable(fdq, eof)
    /\ last' = Op("readEvent", <<>>, arg, FALSE, "return", "", "select", 0, 0, None)
    /\ UNCHANGED <<watches, paths, live, fdq, buf, eof>>

\* val == 0: return None
ReadEventEndOfStream(arg) ==
    /\ Readable(fdq, eof)
    /\ FilledBuf(buf, fdq) = <<>>
    /\ last' = Op("readEvent", <<>>, arg, TRUE, "return", "", "select", 0, 0, None)
    /\ UNCHANGED <<watches, paths, live, fdq, buf, eof>>

ReadEventRecord(arg) ==
    /\ Readable(fdq, eof)
    /\ FilledBuf(buf, fdq) # <<>>
    /\ LET b == FilledBuf(buf, fdq)
           r == Decoded(paths, Head(b))
       IN /\ buf' = Tail(b)
          /\ fdq' = FilledFdq(buf, fdq)
          /\ last' = Op("readEvent", <<>>, arg, TRUE, r.outcome, r.error,
                        "select", 0, 0, r.event)
    /\ UNCHANGED <<watches, paths, live, eof>>

\* with timeout None select does not return before the descriptor is readable
ReadEvent(arg) ==
    \/ ReadEventTimedOut(arg)
    \/ ReadEventEndOfStream(arg)
    \/ ReadEventRecord(arg)

(***************************************************************************)
(* The environment: the kernel queues records on the descriptor, removes   *)
(* watches on its own, and the stream may end (also inside a record).      *)
(***************************************************************************)
Pending == Len(fdq) + Len(buf)

Arrive(rec) ==
    /\ ~eof
    /\ Pending < MaxPending
    /\ fdq' = Append(fdq, rec)
    /\ last' = EnvOp("kernel")
    /\ UNCHANGED <<watches, paths, live, buf, eof>>

ArriveTruncated(rec) ==
    /\ ~eof
    /\ Pending < MaxPending
    /\ fdq' = Append(fdq, rec)
    /\ eof' = TRUE
    /\ last' = EnvOp("kernel")
    /\ UNCHANGED <<watches, paths, live, buf>>

EndOfStream ==
    /\ ~eof
    /\ eof' = TRUE
    /\ last' = EnvOp("kernel")
    /\ UNCHANGED <<watches, paths, live, fdq, buf>>

\* the kernel removes a watch itself (the watched file is deleted, its
\* file system unmounted)
KernelAutoRemove(wd) ==
    /\ wd \in DOMAIN live
    /\ live' = DictPop(live, wd)
    /\ last' = EnvOp("kernel")
    /\ UNCHANGED <<watches, paths, fdq, buf, eof>>

Next ==
    \/ \E path \in PathArgs, mask \in MaskArgs : AddWatch(path, mask)
    \/ \E path \in PathArgs : RmWatch(path)
    \/ \E arg \in TimeoutArgs : ReadEvent(arg)
    \/ \E rec \in CompleteRecords : Arrive(rec)
    \/ \E rec \in TruncatedRecords : ArriveTruncated(rec)
    \/ EndOfStream
    \/ \E wd \in WatchIds : KernelAutoRemove(wd)

Spec == Init /\ [][Next]_vars

(***************************************************************************)
(* The registry alone: addWatch, rmWatch and the kernel's own removals on  *)
(* a session whose channel stays quiet.  None of these operations reads or *)
(* writes the channel (fdq, buf, eof).                                     *)
(***************************************************************************)
NextRegistry ==
    \/ \E path \in PathArgs, mask \in MaskArgs : AddWatch(path, mask)
    \/ \E path \in PathArgs : RmWatch(path)
    \/ \E wd \in WatchIds : KernelAutoRemove(wd)

SpecRegistry == Init /\ [][NextRegistry]_vars

(***************************************************************************)
(* The channel: readEvent against every record stream, on a session whose  *)
(* kernel registers every watch it is asked for and removes none by        *)
(* itself.  readEvent reads of the registry only self.paths, which here    *)
(* takes every value over WatchIds and PathArgs.                           *)
(***************************************************************************)
NextChannel ==
    \/ \E path \in PathArgs, mask \in MaskArgs, watch \in WatchIds :
            AddWatchReturn(path, mask, watch)
    \/ \E path \in PathArgs : RmWatch(path)
    \/ \E arg \in TimeoutArgs : ReadEvent(arg)
    \/ \E rec \in CompleteRecords : Arrive(rec)
    \/ \E rec \in TruncatedRecords : ArriveTruncated(rec)
    \/ EndOfStream

SpecChannel == Init /\ [][NextChannel]_vars


(***************************************************************************)
(* The demonstration's scenario, step by step: the other path may be       *)
(* watched first; the path is watched; a creation record for its           *)
(* descriptor arrives; readEvent; rmWatch of the path; an ignored record   *)
(* arrives for a descriptor self.paths no longer holds (the path's former  *)
(* descriptor is one); readEvent.  The position in the scenario is read    *)
(* off the last operation and the registry.                                *)
(***************************************************************************)
ScenarioPath == <<"/", "s">>
OtherPath == <<"/", "t">>

ScnStart == last.op = "init" \/ (last.op = "addWatch" /\ last.path = OtherPath)
ScnWatched == last.op = "addWatch" /\ last.path = ScenarioPath
ScnCreated == last.op = "kernel" /\ ScenarioPath \in DOMAIN watches
ScnFirstRead == last.op = "readEvent" /\ ScenarioPath \in DOMAIN watches
ScnRemoved == last.op = "rmWatch"
ScnIgnored == last.op = "kernel" /\ ScenarioPath \notin DOMAIN watches
ScnSecondRead == last.op = "readEvent" /\ ScenarioPath \notin DOMAIN watches

NextScenario ==
    \/ ScnStart /\ \E mask \in MaskArgs, watch \in WatchIds :
                      AddWatchReturn(OtherPath, mask, watch)
    \/ ScnStart /\ \E mask \in MaskArgs, watch \in WatchIds :
                      AddWatchReturn(ScenarioPath, mask, watch)
    \/ ScnWatched /\ Arrive(Rec(watches[ScenarioPath], "IN_CREATE", 2, <<97, 0>>))
    \/ ScnCreated /\ \E arg \in TimeoutArgs : ReadEvent(arg)
    \/ ScnFirstRead /\ RmWatch(ScenarioPath)
    \/ ScnRemoved /\ \E wd \in WatchIds \ DOMAIN paths :
                        Arrive(Rec(wd, "IN_IGNORED", 0, <<>>))
    \/ ScnIgnored /\ \E arg \in TimeoutArgs : ReadEvent(arg)

SpecScenario == Init /\ [][NextScenario]_vars

(***************************************************************************)
(* Properties.                                                             *)
(***************************************************************************)
\* the step is a readEvent that gets past select and readinto and decodes
\* the record NextRecord
ReadsRecord == Readable(fdq, eof) /\ FilledBuf(buf, fdq) # <<>>
NextRecord == Head(FilledBuf(buf, fdq))
Complete(rec) == Len(rec.name) = rec.len

\* the name a record carries: its bytes as characters, without the padding
NotNul(c) == c # NUL
NameOf(rec) == SelectSeq(Decode(rec.name), NotNul)

\* C1: in every state self.watches and self.paths are inverses of each
\* other: watches[p] = w exactly when paths[w] = p.  Stated here for the
\* states in which no failure value of inotify_add_watch is recorded, so
\* that what refutes it is a sequence of successful registrations.
C1_RegistryInverse ==
    (KernelFailure \notin DOMAIN paths) =>
        /\ \A p \in DOMAIN watches :
              watches[p] \in DOMAIN paths /\ paths[watches[p]] = p
        /\ \A w \in DOMAIN paths :
              paths[w] \in DOMAIN watches /\ watches[paths[w]] = w

\* C2: addWatch(p) on a path registered with w_old, for which the kernel
\* returns another descriptor w_new, leaves watches[p] = w_new,
\* paths[w_new] = p and w_old no longer resolving to p.
C2_ReRegisterReplaces ==
    [][(/\ last'.op = "addWatch"
        /\ last'.outcome = "return"
        /\ last'.kret \in WatchIds
        /\ last'.path \in DOMAIN watches
        /\ watches[last'.path] \in WatchIds
        /\ watches[last'.path] # last'.kret)
       => (/\ watches'[last'.path] = last'.kret
           /\ paths'[last'.kret] = last'.path
           /\ ~(/\ watches[last'.path] \in DOMAIN paths'
                /\ paths'[watches[last'.path]] = last'.path))]_vars

\* C3: readEvent on a complete record with a name whose descriptor is not
\* a key of self.paths returns an event without a path and does not fail.
C3_UnresolvedReturned ==
    [][(/\ last'.op = "readEvent"
        /\ ReadsRecord
        /\ NextRecord.len > 0
        /\ Complete(NextRecord)
        /\ NextRecord.wd \notin DOMAIN paths)
       => (/\ last'.outcome = "return"
           /\ last'.event.kind = "InotifyEvent"
           /\ last'.event.wd = NextRecord.wd
           /\ ~last'.event.hasName)]_vars

\* C4: rmWatch on a path that is not a key of self.watches raises, does
\* not call inotify_rm_watch and leaves both maps as they were.
C4_RmUnknownRaises ==
    [][(last'.op = "rmWatch" /\ last'.path \notin DOMAIN watches)
       => (/\ last'.outcome = "raise"
           /\ last'.kcall = "none"
           /\ watches' = watches
           /\ paths' = paths
           /\ live' = live)]_vars

C4_Witness ==
    /\ last.op = "rmWatch"
    /\ last.outcome = "raise"
    /\ last.kcall = "none"
    /\ last.path \notin DOMAIN watches
    /\ DOMAIN watches # {}
    /\ DOMAIN paths # {}

\* C5: rmWatch on a registered path removes the path's entry of
\* self.watches and its descriptor's entry of self.paths, whatever
\* inotify_rm_watch does (returns 0, returns -1, raises).
C5_RmRemovesBoth ==
    [][(/\ last'.op = "rmWatch"
        /\ last'.path \in DOMAIN watches
        /\ watches[last'.path] \in WatchIds)
       => (/\ last'.path \notin DOMAIN watches'
           /\ watches[last'.path] \notin DOMAIN paths')]_vars

\* C6: when inotify_add_watch fails, by raising or by returning -1,
\* addWatch fails and both maps are as they were.
C6_AddFailureNoMutation ==
    [][(/\ last'.op = "addWatch"
        /\ (last'.outcome = "raise" \/ last'.kret = KernelFailure))
       => (/\ last'.outcome = "raise"
           /\ watches' = watches
           /\ paths' = paths)]_vars

\* C7: readEvent called without a timeout returns only once the descriptor
\* is readable: it never returns because nothing was pending.
C7_DefaultWaits ==
    (last.op = "readEvent" /\ last.timeout = "omitted") => last.ready

\* C8: readEvent with a finite timeout on a channel with no pending record
\* returns None, raises nothing and consumes nothing.
C8_FiniteTimeoutNoEvent ==
    [][(/\ last'.op = "readEvent"
        /\ last'.timeout \in {"0", "5.0"}
        /\ fdq = <<>>
        /\ buf = <<>>)
       => (/\ last'.outcome = "return"
           /\ last'.event = None
           /\ fdq' = fdq
           /\ buf' = buf
           /\ eof' = eof)]_vars

C8_Witness ==
    /\ last.op = "readEvent"
    /\ last.timeout = "0"
    /\ ~last.ready
    /\ last.outcome = "return"
    /\ last.event = None
    /\ fdq = <<>>
    /\ buf = <<>>

\* C9: when the header declares a name of N > 0 bytes and the stream has
\* fewer, readEvent fails with a framing error and returns no event.
C9_ShortNameIsFramingError ==
    [][(/\ last'.op = "readEvent"
        /\ ReadsRecord
        /\ NextRecord.len > 0
        /\ ~Complete(NextRecord)
        /\ NextRecord.wd \in DOMAIN paths)
       => (/\ last'.outcome = "raise"
           /\ last'.error = "FramingError")]_vars

\* C10: readEvent on a complete record with a name, whose descriptor w is
\* a key of self.paths, returns an event whose path is paths[w], the path
\* of the most recent addWatch that got w, joined with the record's name
\* without its NUL padding.
C10_ResolvedPath ==
    [][(/\ last'.op = "readEvent"
        /\ ReadsRecord
        /\ NextRecord.len > 0
        /\ Complete(NextRecord)
        /\ NextRecord.wd \in DOMAIN paths)
       => (/\ last'.outcome = "return"
           /\ last'.event.kind = "InotifyEvent"
           /\ last'.event.hasName
           /\ last'.event.name
                = paths[NextRecord.wd] \o <<"/">> \o NameOf(NextRecord)
           /\ NextRecord.wd \in DOMAIN live
           /\ Encode(paths[NextRecord.wd]) = live[NextRecord.wd])]_vars

C10_Witness ==
    /\ last.op = "readEvent"
    /\ last.outcome = "return"
    /\ last.event.kind = "InotifyEvent"
    /\ last.event.hasName
    /\ last.event.length = 2
    /\ last.event.name = <<"/", "t", "/", "a">>

\* C11: readEvent on a record of name length 0 returns an event without a
\* path, whether or not the record's descriptor is a key of self.paths;
\* an event it returns has a path only when its name length is not 0.
C11_NoNameNoPath ==
    [][(last'.op = "readEvent" /\ ReadsRecord)
       => (/\ (NextRecord.len = 0
                 => (/\ last'.outcome = "return"
                     /\ last'.event.kind = "InotifyEvent"
                     /\ last'.event.wd = NextRecord.wd
                     /\ last'.event.mask = NextRecord.mask
                     /\ last'.event.length = 0
                     /\ ~last'.event.hasName
                     /\ last'.event.name = <<>>))
           /\ ((last'.event.kind = "InotifyEvent" /\ last'.event.hasName)
                 => (NextRecord.len > 0 /\ last'.event.length > 0)))]_vars

\* a record of name length 0 for a registered descriptor was returned
C11_Witness ==
    /\ last.op = "readEvent"
    /\ last.outcome = "return"
    /\ last.event.kind = "InotifyEvent"
    /\ last.event.length = 0
    /\ ~last.event.hasName
    /\ last.event.wd \in DOMAIN paths

\* C12: in the scenario addWatch(p), a creation record for p's descriptor
\* arrives, readEvent, rmWatch(p), an ignored record of name length 0
\* arrives, readEvent: the first readEvent returns an event with the
\* creation mask and the path p joined with the file name, and the second
\* returns the ignored record as an event without a path; neither call
\* fails or leaves the record behind.
C12_Scenario ==
    /\ ScnFirstRead
         => (/\ last.outcome = "return"
             /\ last.event.kind = "InotifyEvent"
             /\ last.event.mask = "IN_CREATE"
             /\ last.event.hasName
             /\ last.event.name = ScenarioPath \o <<"/", "a">>
             /\ Pending = 0)
    /\ ScnSecondRead
         => (/\ last.outcome = "return"
             /\ last.event.kind = "InotifyEvent"
             /\ last.event.mask = "IN_IGNORED"
             /\ last.event.wd \notin DOMAIN paths
             /\ ~last.event.hasName
             /\ Pending = 0)

\* the end of the scenario, with the other path still watched
C12_Witness ==
    /\ ScnSecondRead
    /\ last.event.kind = "InotifyEvent"
    /\ last.event.mask = "IN_IGNORED"
    /\ last.timeout = "5.0"
    /\ OtherPath \in DOMAIN watches

\* C13: the events readEvent returns are the records of the channel in
\* arrival order, each exactly once: a readEvent call either takes nothing
\* from the channel and returns no event, or takes exactly the oldest
\* undelivered record and returns that record's event.
C13_InOrderExactlyOnce ==
    [][(last'.op = "readEvent")
       => (\/ /\ buf' \o fdq' = buf \o fdq
              /\ last'.event = None
           \/ /\ buf \o fdq # <<>>
              /\ buf' \o fdq' = Tail(buf \o fdq)
              /\ last'.outcome = "return"
              /\ last'.event.kind = "InotifyEvent"
              /\ last'.event.wd = Head(buf \o fdq).wd
              /\ last'.event.mask = Head(buf \o fdq).mask
              /\ last'.event.length = Head(buf \o fdq).len)]_vars

\* C14: a path is a key of self.watches if and only if a live kernel watch
\* exists for it: every registered path's descriptor is a live watch, and
\* every live watch's path is registered; so after the kernel removes a
\* watch by itself the path is no longer registered.  (States in which the
\* kernel's failure value was stored are left to C6.)
C14_RegisteredIffLive ==
    (KernelFailure \notin DOMAIN paths)
       => (/\ \A p \in DOMAIN watches : watches[p] \in DOMAIN live
           /\ \A w \in DOMAIN live : Decode(live[w]) \in DOMAIN watches)

\* C15: readEvent changes nothing but the channel's read position: it
\* leaves self.watches and self.paths as they were; a call that returns an
\* event has taken exactly that one record from the channel, its header
\* and all of its declared name bytes; a call that returns None because
\* the wait timed out has taken nothing.
C15_ReadAdvancesOneRecord ==
    [][(last'.op = "readEvent")
       => (/\ watches' = watches
           /\ paths' = paths
           /\ (last'.outcome = "return" /\ last'.event.kind = "InotifyEvent")
                => (/\ buf \o fdq # <<>>
                    /\ buf' \o fdq' = Tail(buf \o fdq)
                    /\ Len(ReadName(Head(buf \o fdq))) = Head(buf \o fdq).len)
           /\ (last'.outcome = "return" /\ ~last'.ready)
                => (fdq' = fdq /\ buf' = buf))]_vars

\* C16: readEvent with a finite timeout does not return None while a record
\* that has arrived is still undelivered, whether the record waits on the
\* descriptor or in the buffered reader.
C16_NoNoneWhilePending ==
    [][(/\ last'.op = "readEvent"
        /\ Timeout(last'.timeout) # "None"
        /\ buf \o fdq # <<>>)
       => ~(last'.outcome = "return" /\ last'.event = None)]_vars

\* C17: addWatch(p, mask) and rmWatch(p) change only the entries of p: every
\* other path q that was registered, with watches[q] a kernel descriptor
\* and paths[watches[q]] = q, is registered in the same way after the call.
C17_OtherPathsUntouched ==
    [][(last'.op \in {"addWatch", "rmWatch"})
       => \A q \in DOMAIN watches :
            (/\ q # last'.path
             /\ watches[q] \in WatchIds
             /\ watches[q] \in DOMAIN paths
             /\ paths[watches[q]] = q)
            => (/\ q \in DOMAIN watches'
                /\ watches'[q] = watches[q]
                /\ watches[q] \in DOMAIN paths'
                /\ paths'[watches[q]] = q)]_vars

\* C18: in rmWatch on a registered path the inconsistent reverse lookups do
\* not happen: the path's descriptor is a key of self.paths with a value
\* that is not None, and when rmWatch returns it returns the status of
\* inotify_rm_watch.  (A descriptor that is the kernel's failure value is
\* left to C6.)
C18_ReverseLookupConsistent ==
    [][(/\ last'.op = "rmWatch"
        /\ last'.path \in DOMAIN watches
        /\ watches[last'.path] \in WatchIds)
       => (/\ watches[last'.path] \in DOMAIN paths
           /\ paths[watches[last'.path]] # PyNone
           /\ (last'.outcome = "return" => last'.ret = last'.kret))]_vars

====
